---- MODULE Spec2Model ----
(***************************************************************************)
(* SEM cropper & scaler: the App shell (upload, suggestion call, reset)    *)
(* and the ImageEditor session (crop insets, two-click calibration, scale  *)
(* bar preview and export).                                                *)
(*                                                                         *)
(* Numbers are JavaScript numbers in the source.  The model keeps them as  *)
(* integers and draws its inputs from sets on which every quotient and     *)
(* square root the code takes is an integer; Quot and Sqrt are undefined   *)
(* (TLC stops) outside that domain, so nothing is silently rounded.  A     *)
(* division by zero is kept apart as "not finite".                         *)
(***************************************************************************)
EXTENDS Integers, Sequences, FiniteSets, TLC

VARIABLES
    imageSrc,       \* App.tsx:8   null or the selected image (its decoded size)
    isAnalyzing,    \* App.tsx:9
    analysisData,   \* App.tsx:10  null or the stored suggestion
    calls,          \* handleFileChange invocations still in flight
    response,       \* what the suggestion service answered to the last finished call
    discarded,      \* whether handleReset has run since the page was opened
    imageObj,       \* ImageEditor.tsx:18
    crop,           \* ImageEditor.tsx:21
    mode,           \* ImageEditor.tsx:22
    usePercent,     \* ImageEditor.tsx:23
    calStart,       \* ImageEditor.tsx:26
    calEnd,         \* ImageEditor.tsx:27
    calibration,    \* ImageEditor.tsx:28
    settings,       \* ImageEditor.tsx:38
    download,       \* the surface handed to the browser by the last handleDownload
    clicks,         \* canvas clicks the mounted editor has handled, counted up to MaxClicks
    lastOp          \* name of the handler that ran last, and its arguments

appVars  == <<imageSrc, isAnalyzing, analysisData, calls, response, discarded>>
edVars   == <<imageObj, crop, mode, usePercent, calStart, calEnd, calibration, settings, download,
              clicks>>
vars     == <<imageSrc, isAnalyzing, analysisData, calls, response, discarded, imageObj, crop,
              mode, usePercent, calStart, calEnd, calibration, settings, download, clicks,
              lastOp>>

(***************************************************************************)
(* Bounds                                                                  *)
(***************************************************************************)
\* The click counter stops counting here.
MaxClicks == 4

(***************************************************************************)
(* Values                                                                  *)
(***************************************************************************)
\* JavaScript null / a cleared optional slot.  Points and images are pairs.
Null == <<>>

CALIBRATE == "CALIBRATE"
EDIT == "EDIT"

\* A value of type SemAnalysisResult as JSON.parse can produce it: the
\* object may be null and either field may be missing.
JsNull ==
    [isNull |-> TRUE, hasCropY |-> FALSE, suggestedCropY |-> 0,
     hasText |-> FALSE, detectedScaleText |-> <<>>]

Suggestion(y) ==
    [isNull |-> FALSE, hasCropY |-> TRUE, suggestedCropY |-> y,
     hasText |-> FALSE, detectedScaleText |-> <<>>]

SuggestionText(y, text) ==
    [isNull |-> FALSE, hasCropY |-> TRUE, suggestedCropY |-> y,
     hasText |-> TRUE, detectedScaleText |-> text]

EmptyObject ==
    [isNull |-> FALSE, hasCropY |-> FALSE, suggestedCropY |-> 0,
     hasText |-> FALSE, detectedScaleText |-> <<>>]

\* JavaScript truthiness of a stored suggestion (App.tsx:88).
Truthy(v) == ~v.isNull

\* A whitespace-separated token of the scale text: its characters and what
\* parseFloat makes of them.
Num(txt, n) == [txt |-> txt, nan |-> FALSE, val |-> n]
Word(txt) == [txt |-> txt, nan |-> TRUE, val |-> 0]

\* What ai.models.generateContent did: rejected, answered without text,
\* answered text that is not JSON, or answered JSON that parses to value.
Throws == [kind |-> "throws", value |-> JsNull]
EmptyText == [kind |-> "empty", value |-> JsNull]
Malformed == [kind |-> "malformed", value |-> JsNull]
Json(v) == [kind |-> "json", value |-> v]
NoResponse == [kind |-> "none", value |-> JsNull]

(***************************************************************************)
(* Exact arithmetic                                                        *)
(***************************************************************************)
Abs(n) == IF n < 0 THEN -n ELSE n

Max(a, b) == IF a >= b THEN a ELSE b

Min(a, b) == IF a <= b THEN a ELSE b

\* a / b where it is an integer (b # 0).
Quot(a, b) == CHOOSE q \in -Abs(a)..Abs(a) : q * b = a

\* Math.sqrt on perfect squares.
Sqrt(n) == CHOOSE r \in 0..n : r * r = n

(***************************************************************************)
(* services/geminiService: analyzeSemImage                                 *)
(***************************************************************************)
DefaultResult == Suggestion(0)

analyzeSemImage(resp) ==
    IF resp.kind = "json" THEN resp.value ELSE DefaultResult

(***************************************************************************)
(* ImageEditor: state of a freshly mounted editor                          *)
(***************************************************************************)
InitCrop == [x |-> 0, y |-> 0, width |-> 0, height |-> 0]

InitCalibration == [pixels |-> 0, knownDistance |-> 10, unit |-> "um"]

InitSettings ==
    [show |-> TRUE, lengthValue |-> 5, lengthUnit |-> "um", barHeight |-> 8,
     fontSize |-> 24, fontColor |-> "#ffffff", barColor |-> "#ffffff",
     position |-> "bottom-right", overlayPadding |-> 40]

NoDownload == [made |-> FALSE]

EditorDefaults ==
    /\ imageObj = Null
    /\ crop = InitCrop
    /\ mode = CALIBRATE
    /\ usePercent = FALSE
    /\ calStart = Null
    /\ calEnd = Null
    /\ calibration = InitCalibration
    /\ settings = InitSettings
    /\ download = NoDownload
    /\ clicks = 0

\* App.tsx:56 and App.tsx:88: which of the two stages is rendered.
UploadShown == imageSrc = Null

EditorShown == imageSrc # Null /\ Truthy(analysisData)

\* App.tsx:60, 71, 81: the spinner and the "Analyzing" texts are part of the
\* upload stage.
AnalyzingShown == UploadShown /\ isAnalyzing

\* The editor's state after the App's state changed to (src, data): React
\* keeps a mounted editor's state and builds a new one from the useState
\* initialisers whenever the editor was or becomes unmounted.
EditorFollows(src, data) ==
    IF EditorShown /\ src # Null /\ Truthy(data)
    THEN UNCHANGED edVars
    ELSE /\ imageObj' = Null
         /\ crop' = InitCrop
         /\ mode' = CALIBRATE
         /\ usePercent' = FALSE
         /\ calStart' = Null
         /\ calEnd' = Null
         /\ calibration' = InitCalibration
         /\ settings' = InitSettings
         /\ download' = NoDownload
         /\ clicks' = 0

Init ==
    /\ imageSrc = Null
    /\ isAnalyzing = FALSE
    /\ analysisData = JsNull
    /\ calls = {}
    /\ response = NoResponse
    /\ discarded = FALSE
    /\ EditorDefaults
    /\ lastOp = <<"init">>

(***************************************************************************)
(* App: handleFileChange, its two continuations, handleReset               *)
(***************************************************************************)
NoFile == Null

\* App.tsx:12-17 and 28.  The file input is rendered in the upload stage and
\* disabled while isAnalyzing (App.tsx:56, 76).
handleFileChange(file) ==
    /\ UploadShown
    /\ ~isAnalyzing
    /\ IF file = NoFile
       THEN UNCHANGED <<isAnalyzing, calls>>
       ELSE /\ isAnalyzing' = TRUE
            /\ calls' = calls \cup {[phase |-> "reading", file |-> file]}
    /\ UNCHANGED <<imageSrc, analysisData, response, discarded>>
    /\ UNCHANGED edVars
    /\ lastOp' = <<"handleFileChange", file>>

\* App.tsx:19-24: reader.onload up to the await.
readerOnload ==
    \E c \in calls :
        /\ c.phase = "reading"
        /\ imageSrc' = c.file
        /\ calls' = (calls \ {c}) \cup {[phase |-> "analyzing", file |-> c.file]}
        /\ UNCHANGED <<isAnalyzing, analysisData, response, discarded>>
        /\ EditorFollows(c.file, analysisData)
        /\ lastOp' = <<"readerOnload">>

\* App.tsx:24-26: the awaited analyzeSemImage settles and the rest of
\* reader.onload runs.
analyzeSettles(resp) ==
    \E c \in calls :
        /\ c.phase = "analyzing"
        /\ response' = resp
        /\ analysisData' = analyzeSemImage(resp)
        /\ isAnalyzing' = FALSE
        /\ calls' = calls \ {c}
        /\ UNCHANGED <<imageSrc, discarded>>
        /\ EditorFollows(imageSrc, analyzeSemImage(resp))
        /\ lastOp' = <<"analyzeSettles">>

handleResetKeepsData ==
    /\ EditorShown
    /\ imageSrc' = Null
    /\ isAnalyzing' = FALSE
    /\ UNCHANGED <<analysisData, calls, response>>
    /\ discarded' = TRUE
    /\ EditorFollows(Null, analysisData)
    /\ lastOp' = <<"handleReset">>

\* App.tsx:31-35, reached through the editor's "Discard and Start Over"
\* button (ImageEditor.tsx:685), which exists while the editor is rendered.
handleReset ==
    /\ EditorShown
    /\ imageSrc' = Null
    /\ analysisData' = JsNull
    /\ isAnalyzing' = FALSE
    /\ UNCHANGED <<calls, response>>
    /\ discarded' = TRUE
    /\ EditorFollows(Null, JsNull)
    /\ lastOp' = <<"handleReset">>

(***************************************************************************)
(* ImageEditor: the image-initialisation effect                            *)
(***************************************************************************)
LoadCropAnyY(img, data) ==
    [x |-> 0, y |-> 0, width |-> img[1],
     height |-> IF data.hasCropY THEN data.suggestedCropY ELSE img[2]]

\* ImageEditor.tsx:57-62.
LoadCrop(img, data) ==
    [x |-> 0, y |-> 0, width |-> img[1],
     height |-> IF data.hasCropY /\ data.suggestedCropY > 0
                THEN data.suggestedCropY ELSE img[2]]

ScaleTextParsesAnyFirst(data) ==
    /\ data.hasText
    /\ Len(data.detectedScaleText) >= 2

\* ImageEditor.tsx:65-70: the scale text is usable.
ScaleTextParses(data) ==
    /\ data.hasText
    /\ Len(data.detectedScaleText) >= 2
    /\ ~data.detectedScaleText[1].nan

\* ImageEditor.tsx:71.
LoadCalibration(cal, data) ==
    IF ScaleTextParses(data)
    THEN [cal EXCEPT !.knownDistance = data.detectedScaleText[1].val,
                     !.unit = data.detectedScaleText[2].txt]
    ELSE cal

\* ImageEditor.tsx:72.
LoadSettings(s, data) ==
    IF ScaleTextParses(data)
    THEN [s EXCEPT !.lengthUnit = data.detectedScaleText[2].txt,
                   !.lengthValue = Quot(data.detectedScaleText[1].val, 2)]
    ELSE s

\* ImageEditor.tsx:51-77: img.onload of the mounted editor.
imgOnload ==
    /\ EditorShown
    /\ imageObj = Null
    /\ imageObj' = imageSrc
    /\ crop' = LoadCrop(imageSrc, analysisData)
    /\ calibration' = LoadCalibration(calibration, analysisData)
    /\ settings' = LoadSettings(settings, analysisData)
    /\ UNCHANGED <<mode, usePercent, calStart, calEnd, download, clicks>>
    /\ UNCHANGED appVars
    /\ lastOp' = <<"imgOnload">>

(***************************************************************************)
(* ImageEditor: mode and unit toggles                                      *)
(***************************************************************************)
\* ImageEditor.tsx:440 and 446: the two step buttons.
setMode(m) ==
    /\ EditorShown
    /\ mode' = m
    /\ UNCHANGED <<imageObj, crop, usePercent, calStart, calEnd, calibration, settings, download, clicks>>
    /\ UNCHANGED appVars
    /\ lastOp' = <<"setMode", m>>

\* ImageEditor.tsx:467 and 473: the px / % toggle of the crop panel, which
\* is rendered in CALIBRATE mode (ImageEditor.tsx:456).
setUsePercent(b) ==
    /\ EditorShown
    /\ mode = CALIBRATE
    /\ usePercent' = b
    /\ UNCHANGED <<imageObj, crop, mode, calStart, calEnd, calibration, settings, download, clicks>>
    /\ UNCHANGED appVars
    /\ lastOp' = <<"setUsePercent", b>>

(***************************************************************************)
(* ImageEditor: crop insets                                                *)
(***************************************************************************)
\* The text of a number field: not a number (parseFloat gives NaN), or a
\* decimal with one fractional digit, held in tenths.  The fields are
\* type="number" inputs (ImageEditor.tsx:486, 552), whose value is the empty
\* string whenever what was typed is not a number.
NaNText == [nan |-> TRUE, tenths |-> 0]

Text(tenths) == [nan |-> FALSE, tenths |-> tenths]

\* Math.round: the nearest integer, halves upwards; of n/d with d > 0.
Round(n, d) == (2 * n + d) \div (2 * d)

\* ImageEditor.tsx:267-270: the text shown in an inset field, in tenths.
\* toFixed(1) rounds to the nearest tenth, halves away from zero; the crop
\* holds integers, which Math.round leaves alone.
getDisplayValue(val, max, percent) ==
    IF percent
    THEN IF val < 0 THEN -Round(-val * 1000, max) ELSE Round(val * 1000, max)
    ELSE 10 * val

parseInputValuePixels(val, max, percent) ==
    IF val.nan THEN 0 ELSE Round(val.tenths, 10)

parseInputValueNaNMax(val, max, percent) ==
    IF val.nan THEN max
    ELSE IF percent THEN Round(val.tenths * max, 1000)
    ELSE Round(val.tenths, 10)

\* ImageEditor.tsx:272-277.
parseInputValue(val, max, percent) ==
    IF val.nan THEN 0
    ELSE IF percent THEN Round(val.tenths * max, 1000)
    ELSE Round(val.tenths, 10)

InsetCropFromTop(prev, type, val, w, h) ==
    CASE type = "top" ->
            LET bottomEdge == prev.y + prev.height
                y == Max(0, Min(val, bottomEdge - 10))
            IN  [prev EXCEPT !.y = y, !.height = bottomEdge - y]
      [] type = "bottom" ->
            [prev EXCEPT !.height = Max(10, h - val)]
      [] type = "left" ->
            LET rightEdge == prev.x + prev.width
                x == Max(0, Min(val, rightEdge - 10))
            IN  [prev EXCEPT !.x = x, !.width = rightEdge - x]
      [] type = "right" ->
            [prev EXCEPT !.width = Max(10, w - val)]

InsetCropMove(prev, type, val, w, h) ==
    CASE type = "top" ->
            [prev EXCEPT !.y = Max(0, Min(val, prev.y + prev.height - 10))]
      [] type = "bottom" ->
            [prev EXCEPT !.height = Max(10, h - prev.y - val)]
      [] type = "left" ->
            [prev EXCEPT !.x = Max(0, Min(val, prev.x + prev.width - 10))]
      [] type = "right" ->
            [prev EXCEPT !.width = Max(10, w - prev.x - val)]

InsetCropRelative(prev, type, val, w, h) ==
    CASE type = "top" ->
            LET bottomEdge == prev.y + prev.height
                y == Max(0, Min(val, bottomEdge - 10))
            IN  [prev EXCEPT !.y = y, !.height = bottomEdge - y]
      [] type = "bottom" ->
            [prev EXCEPT !.height = Max(10, prev.height - val)]
      [] type = "left" ->
            LET rightEdge == prev.x + prev.width
                x == Max(0, Min(val, rightEdge - 10))
            IN  [prev EXCEPT !.x = x, !.width = rightEdge - x]
      [] type = "right" ->
            [prev EXCEPT !.width = Max(10, prev.width - val)]

InsetCropWidthForHeight(prev, type, val, w, h) ==
    CASE type = "top" ->
            LET bottomEdge == prev.y + prev.height
                y == Max(0, Min(val, bottomEdge - 10))
            IN  [prev EXCEPT !.y = y, !.width = bottomEdge - y]
      [] type = "bottom" ->
            [prev EXCEPT !.height = Max(10, h - prev.y - val)]
      [] type = "left" ->
            LET rightEdge == prev.x + prev.width
                x == Max(0, Min(val, rightEdge - 10))
            IN  [prev EXCEPT !.x = x, !.width = rightEdge - x]
      [] type = "right" ->
            [prev EXCEPT !.width = Max(10, w - prev.x - val)]

\* ImageEditor.tsx:294-316: the updater passed to setCrop.
InsetCrop(prev, type, val, w, h) ==
    CASE type = "top" ->
            LET bottomEdge == prev.y + prev.height
                y == Max(0, Min(val, bottomEdge - 10))
            IN  [prev EXCEPT !.y = y, !.height = bottomEdge - y]
      [] type = "bottom" ->
            [prev EXCEPT !.height = Max(10, h - prev.y - val)]
      [] type = "left" ->
            LET rightEdge == prev.x + prev.width
                x == Max(0, Min(val, rightEdge - 10))
            IN  [prev EXCEPT !.x = x, !.width = rightEdge - x]
      [] type = "right" ->
            [prev EXCEPT !.width = Max(10, w - prev.x - val)]

\* ImageEditor.tsx:279-317, called from the four inset fields
\* (ImageEditor.tsx:489, 501, 513, 525) of the crop panel.
updateCropInset(type, valueStr) ==
    /\ EditorShown
    /\ mode = CALIBRATE
    /\ IF imageObj = Null
       THEN UNCHANGED crop
       ELSE LET w == imageObj[1]
                h == imageObj[2]
                val == IF type \in {"top", "bottom"}
                       THEN parseInputValue(valueStr, h, usePercent)
                       ELSE parseInputValue(valueStr, w, usePercent)
            IN  crop' = InsetCrop(crop, type, val, w, h)
    /\ UNCHANGED <<imageObj, mode, usePercent, calStart, calEnd, calibration, settings, download, clicks>>
    /\ UNCHANGED appVars
    /\ lastOp' = <<"updateCropInset", type, valueStr>>

\* ImageEditor.tsx:500: what the "Bottom Inset" field shows, in tenths.
BottomInsetShown ==
    getDisplayValue(IF imageObj # Null THEN imageObj[2] - (crop.y + crop.height) ELSE 0,
                    IF imageObj # Null /\ imageObj[2] # 0 THEN imageObj[2] ELSE 1,
                    usePercent)

(***************************************************************************)
(* ImageEditor: calibration                                                *)
(***************************************************************************)
\* ImageEditor.tsx:247-252: display coordinates to native pixels.  rect is
\* the canvas' bounding box with the ratios canvas.width / rect.width and
\* canvas.height / rect.height.
ToNative(e, rect) ==
    <<(e.clientX - rect.left) * rect.scaleX, (e.clientY - rect.top) * rect.scaleY>>

DistanceManhattan(a, b) == Abs(b[1] - a[1]) + Abs(b[2] - a[2])

\* ImageEditor.tsx:258.
Distance(a, b) ==
    Sqrt((b[1] - a[1]) * (b[1] - a[1]) + (b[2] - a[2]) * (b[2] - a[2]))

ClickHonouredAlways(m) == TRUE

\* ImageEditor.tsx:244: clicks are honoured in CALIBRATE mode.
ClickHonoured(m) == m = CALIBRATE

\* ImageEditor.tsx:243-264.
handleCanvasClick(e, rect) ==
    /\ EditorShown
    /\ IF ~ClickHonoured(mode)
       THEN UNCHANGED <<calStart, calEnd, calibration>>
       ELSE LET pt == ToNative(e, rect)
            IN  IF calStart = Null
                THEN /\ calStart' = pt
                     /\ UNCHANGED <<calEnd, calibration>>
                ELSE IF calEnd = Null
                THEN /\ calEnd' = pt
                     /\ calibration' = [calibration EXCEPT !.pixels = Distance(calStart, pt)]
                     /\ UNCHANGED calStart
                ELSE /\ calStart' = pt
                     /\ calEnd' = Null
                     /\ UNCHANGED calibration
    /\ clicks' = Min(clicks + 1, MaxClicks)
    /\ UNCHANGED <<imageObj, crop, mode, usePercent, settings, download>>
    /\ UNCHANGED appVars
    /\ lastOp' = <<"handleCanvasClick", e>>

ResetCalibrationAll(cal) == InitCalibration

\* ImageEditor.tsx:569: the updater of "Reset Points".
ResetCalibration(cal) == [cal EXCEPT !.pixels = 0]

\* ImageEditor.tsx:568-573, in the calibration panel (CALIBRATE mode).
resetPoints ==
    /\ EditorShown
    /\ mode = CALIBRATE
    /\ calStart' = Null
    /\ calEnd' = Null
    /\ calibration' = ResetCalibration(calibration)
    /\ UNCHANGED <<imageObj, crop, mode, usePercent, settings, download, clicks>>
    /\ UNCHANGED appVars
    /\ lastOp' = <<"resetPoints">>

\* ImageEditor.tsx:554: Number(e.target.value) of the field's text; the empty
\* string gives 0.
Number(val) == IF val.nan THEN 0 ELSE Quot(val.tenths, 10)

\* ImageEditor.tsx:551-556: the "Real Length" field.
setKnownDistance(val) ==
    /\ EditorShown
    /\ mode = CALIBRATE
    /\ calibration' = [calibration EXCEPT !.knownDistance = Number(val)]
    /\ UNCHANGED <<imageObj, crop, mode, usePercent, calStart, calEnd, settings, download, clicks>>
    /\ UNCHANGED appVars
    /\ lastOp' = <<"setKnownDistance", val>>

setUnitClearsPixels(u) ==
    /\ EditorShown
    /\ mode = CALIBRATE
    /\ calibration' = [calibration EXCEPT !.unit = u, !.pixels = 0]
    /\ UNCHANGED <<imageObj, crop, mode, usePercent, calStart, calEnd, settings, download, clicks>>
    /\ UNCHANGED appVars
    /\ lastOp' = <<"setUnit", u>>

\* ImageEditor.tsx:560-565: the "Unit" field.
setUnit(u) ==
    /\ EditorShown
    /\ mode = CALIBRATE
    /\ calibration' = [calibration EXCEPT !.unit = u]
    /\ UNCHANGED <<imageObj, crop, mode, usePercent, calStart, calEnd, settings, download, clicks>>
    /\ UNCHANGED appVars
    /\ lastOp' = <<"setUnit", u>>

(***************************************************************************)
(* ImageEditor: the crop overlay of the preview                            *)
(***************************************************************************)
\* The pixel in column i and row j is painted by fillRect(r[1], r[2], r[3],
\* r[4]); the canvas takes a negative width or height as extending to the
\* left or upwards.
Covers(r, i, j) ==
    /\ Min(r[1], r[1] + r[3]) <= i
    /\ i < Max(r[1], r[1] + r[3])
    /\ Min(r[2], r[2] + r[4]) <= j
    /\ j < Max(r[2], r[2] + r[4])

MaskRectsFullHeight(c, w, h) ==
    << <<0, 0, w, c.y>>,
       <<0, c.y + c.height, w, h - (c.y + c.height)>>,
       <<0, 0, c.x, h>>,
       <<c.x + c.width, 0, w - (c.x + c.width), h>> >>

\* ImageEditor.tsx:98-105: the top, bottom, left and right fillRect of the
\* mask on a canvas of w x h.
MaskRects(c, w, h) ==
    << <<0, 0, w, c.y>>,
       <<0, c.y + c.height, w, h - (c.y + c.height)>>,
       <<0, c.y, c.x, c.height>>,
       <<c.x + c.width, c.y, w - (c.x + c.width), c.height>> >>

\* ImageEditor.tsx:82-105: the mask draw paints; the canvas has the image's
\* size.
drawMask == IF imageObj = Null THEN <<>> ELSE MaskRects(crop, imageObj[1], imageObj[2])

(***************************************************************************)
(* ImageEditor: the bar settings panel, rendered in EDIT mode              *)
(***************************************************************************)
\* ImageEditor.tsx:590-595: the "Length" field.
setLengthValue(n) ==
    /\ EditorShown
    /\ mode = EDIT
    /\ settings' = [settings EXCEPT !.lengthValue = n]
    /\ UNCHANGED <<imageObj, crop, mode, usePercent, calStart, calEnd, calibration, download,
                   clicks>>
    /\ UNCHANGED appVars
    /\ lastOp' = <<"setLengthValue", n>>

\* ImageEditor.tsx:616-619: the options of the "Position" select.
Positions == {"bottom-right", "bottom-left", "top-right", "top-left"}

\* ImageEditor.tsx:611-620.
setPosition(pos) ==
    /\ EditorShown
    /\ mode = EDIT
    /\ settings' = [settings EXCEPT !.position = pos]
    /\ UNCHANGED <<imageObj, crop, mode, usePercent, calStart, calEnd, calibration, download,
                   clicks>>
    /\ UNCHANGED appVars
    /\ lastOp' = <<"setPosition", pos>>

(***************************************************************************)
(* ImageEditor: the scale bar in the preview and in the export             *)
(***************************************************************************)
\* ImageEditor.tsx:139 and 338: the calibration test both renderers make.
CalibrationValid(cal) == cal.pixels > 0

NoBar == [issued |-> FALSE]

BarCallsNoKnown(cal, s, rx, ry, rw, rh, lift) ==
    LET barPixelWidth == s.lengthValue * cal.pixels
        p == s.overlayPadding
        x == IF s.position \in {"bottom-right", "top-right"}
             THEN rx + rw - barPixelWidth - p
             ELSE rx + p
        y == IF s.position \in {"bottom-right", "bottom-left"}
             THEN ry + rh - p
             ELSE ry + p + s.fontSize
    IN  [issued |-> TRUE, finite |-> TRUE,
         x |-> x, y |-> y - lift, width |-> barPixelWidth, height |-> s.barHeight,
         barColor |-> s.barColor,
         text |-> <<s.lengthValue, s.lengthUnit>>,
         labelX2 |-> 2 * x + barPixelWidth, labelY |-> y - lift - 8,
         fontSize |-> s.fontSize, fontColor |-> s.fontColor]

BarCallsTopNoFont(cal, s, rx, ry, rw, rh, lift) ==
    IF cal.knownDistance = 0
    THEN [issued |-> TRUE, finite |-> FALSE]
    ELSE LET pixelsPerUnit == Quot(cal.pixels, cal.knownDistance)
             barPixelWidth == s.lengthValue * pixelsPerUnit
             p == s.overlayPadding
             x == IF s.position \in {"bottom-right", "top-right"}
                  THEN rx + rw - barPixelWidth - p
                  ELSE rx + p
             y == IF s.position \in {"bottom-right", "bottom-left"}
                  THEN ry + rh - p
                  ELSE ry + p
         IN  [issued |-> TRUE, finite |-> TRUE,
              x |-> x, y |-> y - lift, width |-> barPixelWidth, height |-> s.barHeight,
              barColor |-> s.barColor,
              text |-> <<s.lengthValue, s.lengthUnit>>,
              labelX2 |-> 2 * x + barPixelWidth, labelY |-> y - lift - 8,
              fontSize |-> s.fontSize, fontColor |-> s.fontColor]

\* ImageEditor.tsx:140-178 and 339-361: the fillRect and fillText calls for
\* the bar, placed in the rectangle with left edge rx, top edge ry and size
\* rw x rh.  lift is how far above the anchor the bar's top edge is put.
\* With knownDistance = 0 the width is Infinity or NaN (finite = FALSE) and
\* the canvas ignores both calls.  labelX2 is twice the label's x.
BarCalls(cal, s, rx, ry, rw, rh, lift) ==
    IF cal.knownDistance = 0
    THEN [issued |-> TRUE, finite |-> FALSE]
    ELSE LET pixelsPerUnit == Quot(cal.pixels, cal.knownDistance)
             barPixelWidth == s.lengthValue * pixelsPerUnit
             p == s.overlayPadding
             x == IF s.position \in {"bottom-right", "top-right"}
                  THEN rx + rw - barPixelWidth - p
                  ELSE rx + p
             y == IF s.position \in {"bottom-right", "bottom-left"}
                  THEN ry + rh - p
                  ELSE ry + p + s.fontSize
         IN  [issued |-> TRUE, finite |-> TRUE,
              x |-> x, y |-> y - lift, width |-> barPixelWidth, height |-> s.barHeight,
              barColor |-> s.barColor,
              text |-> <<s.lengthValue, s.lengthUnit>>,
              labelX2 |-> 2 * x + barPixelWidth, labelY |-> y - lift - 8,
              fontSize |-> s.fontSize, fontColor |-> s.fontColor]

\* ImageEditor.tsx:80-181, step 4: the bar the preview shows.
draw ==
    IF imageObj # Null /\ mode = EDIT /\ settings.show /\ CalibrationValid(calibration)
    THEN BarCalls(calibration, settings, crop.x, crop.y, crop.width, crop.height, 0)
    ELSE NoBar

\* ImageEditor.tsx:337-362: the bar of the exported surface.
ExportBar ==
    IF settings.show /\ CalibrationValid(calibration)
    THEN BarCalls(calibration, settings, 0, 0, crop.width, crop.height, settings.barHeight)
    ELSE NoBar

ExportOpsOfPreview ==
    <<"drawImage", "fillRect", "fillRect", "fillRect", "fillRect", "strokeRect">>
        \o (IF settings.show /\ CalibrationValid(calibration)
            THEN <<"fillRect", "fillText">> ELSE <<>>)

\* ImageEditor.tsx:322-362: the drawing calls made on the export canvas, in
\* order.
ExportOps ==
    <<"drawImage">>
        \o (IF settings.show /\ CalibrationValid(calibration)
            THEN <<"fillRect", "fillText">> ELSE <<>>)

\* ImageEditor.tsx:673-676: the export button is rendered in EDIT mode and
\* disabled while calibration.pixels === 0.
ExportEnabled == EditorShown /\ mode = EDIT /\ calibration.pixels # 0

\* ImageEditor.tsx:319-368.
handleDownload ==
    /\ ExportEnabled
    /\ IF imageObj = Null
       THEN UNCHANGED download
       ELSE download' = [made |-> TRUE,
                         width |-> crop.width, height |-> crop.height,
                         source |-> <<crop.x, crop.y, crop.width, crop.height>>,
                         dest |-> <<0, 0, crop.width, crop.height>>,
                         ops |-> ExportOps,
                         bar |-> ExportBar]
    /\ UNCHANGED <<imageObj, crop, mode, usePercent, calStart, calEnd, calibration, settings,
                   clicks>>
    /\ UNCHANGED appVars
    /\ lastOp' = <<"handleDownload">>

\* The canvas paints a fillRect whose arguments are finite and whose area
\* is not empty (a negative width paints to the left of x), and a fillText
\* whose arguments are finite.
BarPainted(b) == b.issued /\ b.finite /\ b.width # 0 /\ b.height # 0

LabelPainted(b) == b.issued /\ b.finite

(***************************************************************************)
(* Specifications                                                          *)
(***************************************************************************)
\* Images by decoded size, and what the user can hand to the file dialog.
Files == {NoFile, <<1000, 800>>, <<30, 25>>, <<12, 16>>}

TenMicron == <<Num("10", 10), Word("um")>>

\* Answers of the suggestion service.
Responses ==
    {Throws, EmptyText, Malformed,
     Json(JsNull), Json(EmptyObject),
     Json(Suggestion(0)), Json(Suggestion(5)), Json(Suggestion(700)), Json(Suggestion(900)),
     Json(SuggestionText(700, TenMicron)),
     Json(SuggestionText(700, <<Num("200", 200), Word("nm"), Word("bar")>>)),
     Json(SuggestionText(700, <<Word("scale"), Num("10", 10)>>)),
     Json(SuggestionText(0, <<Num("10", 10)>>)),
     Json(SuggestionText(0, <<>>))}

\* The App with the editor's load: upload, suggestion, mount, discard.
Next ==
    \/ \E f \in Files : handleFileChange(f)
    \/ readerOnload
    \/ \E r \in Responses : analyzeSettles(r)
    \/ imgOnload
    \/ \E m \in {CALIBRATE, EDIT} : setMode(m)
    \/ handleReset

Spec == Init /\ [][Next]_vars

\* Crop editing: one of two images, with or without a suggested crop line
\* (one that lies inside both images).
CropFiles == {<<1000, 800>>, <<30, 25>>}

CropResponses == {Json(Suggestion(20)), Throws}

Edges == {"top", "bottom", "left", "right"}

\* Texts typed into an inset field: nothing usable, -5, 0, 12.5, 100, 2000.
InsetTexts == {NaNText, Text(-50), Text(0), Text(125), Text(1000), Text(20000)}

NextCrop ==
    \/ \E f \in CropFiles : handleFileChange(f)
    \/ readerOnload
    \/ \E r \in CropResponses : analyzeSettles(r)
    \/ imgOnload
    \/ \E b \in BOOLEAN : setUsePercent(b)
    \/ \E t \in Edges, v \in InsetTexts : updateCropInset(t, v)
    \/ handleReset

SpecCrop == Init /\ [][NextCrop]_vars

\* Calibration: the canvas is shown at half its native size, 8 px from the
\* left and 16 px from the top of the viewport; the pointer positions map
\* to the corners of a 30 x 40 native rectangle.
Layout == [left |-> 8, top |-> 16, scaleX |-> 2, scaleY |-> 2]

Pointers == {[clientX |-> cx, clientY |-> cy] : cx \in {8, 23}, cy \in {16, 36}}

CalFiles == {<<1000, 800>>}

CalResponses == {Json(SuggestionText(700, TenMicron)), Throws}

\* The editor: clicks, the calibration panel, the mode buttons, export.
NextCal ==
    \/ \E f \in CalFiles : handleFileChange(f)
    \/ readerOnload
    \/ \E r \in CalResponses : analyzeSettles(r)
    \/ imgOnload
    \/ \E e \in Pointers : handleCanvasClick(e, Layout)
    \/ resetPoints
    \/ \E v \in {Text(-100), Text(0), Text(50)} : setKnownDistance(v)
    \/ setUnit("nm")
    \/ \E m \in {CALIBRATE, EDIT} : setMode(m)
    \/ handleDownload
    \/ handleReset

SpecCal == Init /\ [][NextCal]_vars

\* The bar: one image with a scale text, two of the pointer positions (the
\* native points (0, 0) and (30, 40)), the crop moved in from the top and the
\* left, the known distance, the bar length and the corner changed.
BarResponses == {Json(SuggestionText(700, TenMicron))}

BarPointers == {[clientX |-> 8, clientY |-> 16], [clientX |-> 23, clientY |-> 36]}

NextBar ==
    \/ \E f \in CalFiles : handleFileChange(f)
    \/ readerOnload
    \/ \E r \in BarResponses : analyzeSettles(r)
    \/ imgOnload
    \/ \E e \in BarPointers : handleCanvasClick(e, Layout)
    \/ \E t \in {"top", "left"} : updateCropInset(t, Text(1000))
    \/ setKnownDistance(Text(50))
    \/ \E m \in {CALIBRATE, EDIT} : setMode(m)
    \/ setLengthValue(2)
    \/ \E pos \in Positions : setPosition(pos)
    \/ handleDownload

SpecBar == Init /\ [][NextBar]_vars

\* The number fields of the CALIBRATE panel: the four insets and the known
\* distance, left without a number or given one, around a calibration.
FieldTexts == {NaNText, Text(1000)}

NextFields ==
    \/ \E f \in CalFiles : handleFileChange(f)
    \/ readerOnload
    \/ \E r \in CropResponses : analyzeSettles(r)
    \/ imgOnload
    \/ \E b \in BOOLEAN : setUsePercent(b)
    \/ \E t \in Edges, v \in FieldTexts : updateCropInset(t, v)
    \/ \E e \in BarPointers : handleCanvasClick(e, Layout)
    \/ \E v \in {NaNText, Text(50)} : setKnownDistance(v)

SpecFields == Init /\ [][NextFields]_vars

\* The overlay: a small image, its crop moved by insets of -5, 0, 5 and
\* 12.5 px.
MaskFiles == {<<30, 25>>}

MaskTexts == {Text(-50), Text(0), Text(50), Text(125)}

NextMask ==
    \/ \E f \in MaskFiles : handleFileChange(f)
    \/ readerOnload
    \/ \E r \in CropResponses : analyzeSettles(r)
    \/ imgOnload
    \/ \E t \in Edges, v \in MaskTexts : updateCropInset(t, v)

SpecMask == Init /\ [][NextMask]_vars

\* A session in which the canvas is clicked and nothing else is touched.
NextClicks ==
    \/ \E f \in CalFiles : handleFileChange(f)
    \/ readerOnload
    \/ \E r \in CalResponses : analyzeSettles(r)
    \/ imgOnload
    \/ \E e \in Pointers : handleCanvasClick(e, Layout)

SpecClicks == Init /\ [][NextClicks]_vars

(***************************************************************************)
(* Properties                                                              *)
(***************************************************************************)
\* The CropRect invariant of a crop c in an image img.
CropInv(c, img) ==
    /\ c.width >= 10
    /\ c.height >= 10
    /\ c.x >= 0
    /\ c.y >= 0
    /\ c.x + c.width <= img[1]
    /\ c.y + c.height <= img[2]

\* C1: after any sequence of inset edits the crop is at least 10 x 10 and
\* lies inside the image.
C1_CropStaysValid ==
    (imageObj # Null /\ lastOp[1] = "updateCropInset") => CropInv(crop, imageObj)

\* C2: on a fresh session (its image loaded) the clicks A, B, C end with
\* start = C, end unset and pixelDistance = 0.
C2_ThirdClickRestarts ==
    (imageObj # Null /\ clicks = 3 /\ lastOp[1] = "handleCanvasClick")
        => /\ calStart = ToNative(lastOp[2], Layout)
           /\ calEnd = Null
           /\ calibration.pixels = 0

\* pixelDistance / knownDistance is a positive finite number.
RatioPositive ==
    /\ calibration.knownDistance # 0
    /\ calibration.pixels * calibration.knownDistance > 0

\* C3: export (of a loaded image) is enabled only while pixelDistance /
\* knownDistance is a positive finite number.
C3_ExportNeedsRatio == (ExportEnabled /\ imageObj # Null) => RatioPositive

\* C4: while pixelDistance / knownDistance is not positive, neither the
\* preview nor an export paints the bar or its label.
C4_NoBarWithoutRatio ==
    ~RatioPositive
        => /\ ~BarPainted(draw)
           /\ ~LabelPainted(draw)
           /\ (lastOp = <<"handleDownload">> /\ download.made)
                => (~BarPainted(download.bar) /\ ~LabelPainted(download.bar))

\* C5: "Reset Points" clears both points and pixelDistance and keeps
\* knownDistance and unit.
C5_ResetKeepsKnown ==
    [][lastOp' = <<"resetPoints">>
          => /\ calStart' = Null
             /\ calEnd' = Null
             /\ calibration'.pixels = 0
             /\ calibration'.knownDistance = calibration.knownDistance
             /\ calibration'.unit = calibration.unit]_vars

\* A reset of a session whose canvas was clicked twice and whose known
\* distance and unit were edited.
C5_Witness ==
    /\ lastOp = <<"resetPoints">>
    /\ clicks >= 2
    /\ calStart = Null
    /\ calibration = [pixels |-> 0, knownDistance |-> 5, unit |-> "nm"]

\* C6: a canvas click in EDIT mode changes nothing of the session, and the
\* calibration points of a session change only by a click in CALIBRATE mode
\* or by "Reset Points".
C6_EditClickNoOp ==
    [][/\ (lastOp'[1] = "handleCanvasClick" /\ mode = EDIT)
            => UNCHANGED <<appVars, imageObj, crop, mode, usePercent, calStart, calEnd,
                           calibration, settings, download>>
       /\ (EditorShown /\ EditorShown' /\ <<calStart, calEnd>>' # <<calStart, calEnd>>)
            => \/ lastOp'[1] = "handleCanvasClick" /\ mode = CALIBRATE
               \/ lastOp' = <<"resetPoints">>]_vars

\* A click in EDIT mode on a calibrated session, the measurement still there.
C6_Witness ==
    /\ lastOp[1] = "handleCanvasClick"
    /\ mode = EDIT
    /\ calStart # Null
    /\ calEnd # Null
    /\ calibration.pixels = 50

\* The suggestion call failed: it threw, answered nothing, or answered
\* something that is not an object with a suggestedCropY.
Failed(resp) ==
    \/ resp.kind # "json"
    \/ resp.value.isNull
    \/ ~resp.value.hasCropY

\* C8: after any failure of the suggestion call the editor opens, on a
\* suggestion without a crop line (as the default, suggestedCropY = 0, is)
\* and without a scale text to seed the calibration from.
C8_FailureFallsBack ==
    (lastOp = <<"analyzeSettles">> /\ Failed(response))
        => /\ EditorShown
           /\ ~(analysisData.hasCropY /\ analysisData.suggestedCropY > 0)
           /\ ~ScaleTextParses(analysisData)

\* C9: on load the crop is the full width and, in height, the suggested
\* crop line when that is positive and the full height otherwise.
C9_LoadCrop ==
    lastOp = <<"imgOnload">>
        => /\ crop.x = 0
           /\ crop.y = 0
           /\ crop.width = imageSrc[1]
           /\ (analysisData.hasCropY /\ analysisData.suggestedCropY > 0)
                => crop.height = analysisData.suggestedCropY
           /\ ~(analysisData.hasCropY /\ analysisData.suggestedCropY > 0)
                => crop.height = imageSrc[2]
           /\ (imageSrc = <<1000, 800>> /\ analysisData.suggestedCropY = 700)
                => crop = [x |-> 0, y |-> 0, width |-> 1000, height |-> 700]

\* The 1000 x 800 image loaded with the crop line suggested at 700.
C9_Witness ==
    /\ lastOp = <<"imgOnload">>
    /\ imageObj = <<1000, 800>>
    /\ analysisData.suggestedCropY = 700
    /\ crop = [x |-> 0, y |-> 0, width |-> 1000, height |-> 700]

\* C10: right after load, whatever the image and the suggestion with
\* suggestedCropY >= 0, the crop satisfies the CropRect invariant.
C10_LoadCropValid ==
    (lastOp = <<"imgOnload">> /\ analysisData.hasCropY /\ analysisData.suggestedCropY >= 0)
        => CropInv(crop, imageObj)

\* The last handler run was an edit of the bottom inset of a loaded image,
\* in pixel (percent = FALSE) or percent mode, with a number typed.
BottomEdited(percent) ==
    /\ imageObj # Null
    /\ usePercent = percent
    /\ Len(lastOp) = 3
    /\ lastOp[1] = "updateCropInset"
    /\ lastOp[2] = "bottom"
    /\ ~lastOp[3].nan

\* C11 as claimed: in pixel mode the bottom inset field shows exactly the
\* value v that was typed into it, here for whole numbers v >= 0, which no
\* rounding touches.
C11_BottomReadsBack ==
    (BottomEdited(FALSE) /\ lastOp[3].tenths % 10 = 0 /\ lastOp[3].tenths >= 0)
        => BottomInsetShown = lastOp[3].tenths

\* C11 as amended: in pixel mode, after an integer v is typed into the
\* bottom inset field it shows min(v, imageHeight - y - 10): v itself unless
\* that would leave the crop less than 10 px high.
C11_BottomReadsBackUnclamped ==
    (BottomEdited(FALSE) /\ lastOp[3].tenths % 10 = 0)
        => BottomInsetShown = Min(lastOp[3].tenths, 10 * (imageObj[2] - crop.y - 10))

\* A bottom inset of 100 px typed on the 1000 x 800 image and shown as 100,
\* below a top edge that was moved first.
C11_Witness ==
    /\ BottomEdited(FALSE)
    /\ lastOp[3] = Text(1000)
    /\ imageObj = <<1000, 800>>
    /\ crop.y = 13
    /\ crop.height = 687
    /\ BottomInsetShown = 1000

\* C12 as claimed: in percent mode the bottom inset field shows a value
\* within 0.1 of the percentage v >= 0 that was typed into it.
C12_PercentReadsBack ==
    (BottomEdited(TRUE) /\ lastOp[3].tenths >= 0)
        => Abs(BottomInsetShown - lastOp[3].tenths) <= 1

\* The bottom edit was not cut short by the 10 px minimum height.
BottomUnclamped == crop.height > 10 \/ BottomInsetShown = lastOp[3].tenths

\* C12 as amended: in percent mode, unless the edit is cut short by the
\* 10 px minimum, the field shows a value within 0.05 + 50 / imageHeight
\* percentage points of v.
C12_PercentReadsBackBound ==
    (BottomEdited(TRUE) /\ BottomUnclamped)
        => 2 * imageObj[2] * Abs(BottomInsetShown - lastOp[3].tenths) <= imageObj[2] + 1000

\* 12.5 % typed on the 25 px high image: 3 px, shown as 12.0 %.
C12_Witness ==
    /\ BottomEdited(TRUE)
    /\ lastOp[3] = Text(125)
    /\ imageObj = <<30, 25>>
    /\ crop.height = 22 - crop.y
    /\ BottomInsetShown = 120

\* C13: every inset edit leaves the opposite edge where it was.
C13_OppositeEdgeFixed ==
    [][(lastOp'[1] = "updateCropInset" /\ imageObj # Null)
          => /\ lastOp'[2] = "top" => crop'.y + crop'.height = crop.y + crop.height
             /\ lastOp'[2] = "bottom" => crop'.y = crop.y
             /\ lastOp'[2] = "left" => crop'.x + crop'.width = crop.x + crop.width
             /\ lastOp'[2] = "right" => crop'.x = crop.x]_vars

\* A top inset of 2000 px, clamped to 10 px above the bottom edge.
C13_Witness ==
    /\ imageObj = <<1000, 800>>
    /\ lastOp = <<"updateCropInset", "top", Text(20000)>>
    /\ crop.y = 790
    /\ crop.height = 10

\* The words of the scale text after its first token.
Remainder(text) == [i \in 1..(Len(text) - 1) |-> text[i + 1].txt]

\* C14: when the image has just loaded with a scale text "<number> <unit>",
\* the known distance is the number, the unit is everything after the first
\* token, and the bar length is half the number.
C14_ScaleTextSeeds ==
    (/\ lastOp = <<"imgOnload">>
     /\ analysisData.hasText
     /\ Len(analysisData.detectedScaleText) >= 2
     /\ ~analysisData.detectedScaleText[1].nan)
        => /\ calibration.knownDistance = analysisData.detectedScaleText[1].val
           /\ <<calibration.unit>> = Remainder(analysisData.detectedScaleText)
           /\ 2 * settings.lengthValue = analysisData.detectedScaleText[1].val

\* C15: whenever both calibration points are set, the pixel distance is the
\* Euclidean distance between them, also after a restart and a new end point.
C15_PixelsAreDistance ==
    (calStart # Null /\ calEnd # Null)
        => /\ calibration.pixels >= 0
           /\ calibration.pixels * calibration.pixels =
                  (calEnd[1] - calStart[1]) * (calEnd[1] - calStart[1])
                + (calEnd[2] - calStart[2]) * (calEnd[2] - calStart[2])

\* Start (0, 0) and end (30, 40) give 50, here after a restart: these are
\* the third and fourth clicks of the session.
C15_Witness ==
    /\ clicks = 4
    /\ calStart = <<0, 0>>
    /\ calEnd = <<30, 40>>
    /\ calibration.pixels = 50

\* handleDownload has just produced a surface with the bar on it.
JustExportedBar ==
    /\ lastOp = <<"handleDownload">>
    /\ download.made
    /\ download.bar.issued
    /\ download.bar.finite

\* C16: the bar is lengthValue * pixelDistance / knownDistance pixels wide in
\* the preview and in the export; 50 px for 10 units and a 5 unit bar give
\* 25 px.
C16_BarWidth ==
    /\ (draw.issued /\ draw.finite)
          => draw.width * calibration.knownDistance
                 = settings.lengthValue * calibration.pixels
    /\ JustExportedBar
          => download.bar.width * calibration.knownDistance
                 = settings.lengthValue * calibration.pixels
    /\ (calibration.pixels = 50 /\ calibration.knownDistance = 10 /\ settings.lengthValue = 5)
          => /\ draw.issued => draw.width = 25
             /\ JustExportedBar => download.bar.width = 25

\* The 25 px bar, previewed and exported.
C16_Witness ==
    /\ JustExportedBar
    /\ calibration.pixels = 50
    /\ calibration.knownDistance = 10
    /\ settings.lengthValue = 5
    /\ draw.issued
    /\ draw.width = 25
    /\ download.bar.width = 25

\* C17: the exported bar rectangle is the previewed bar rectangle moved by
\* (-crop.x, -crop.y), whichever corner is chosen.
C17_ExportMatchesPreview ==
    (JustExportedBar /\ draw.issued /\ draw.finite)
        => /\ download.bar.x = draw.x - crop.x
           /\ download.bar.y = draw.y - crop.y
           /\ download.bar.width = draw.width
           /\ download.bar.height = draw.height

\* C18: handleReset clears the image, the suggestion and the analyzing flag
\* and shows the upload stage in one step, and the editor of a session
\* started after a discard starts from the defaults with the suggestion of
\* its own call.
C18_ResetStartsOver ==
    [][/\ lastOp' = <<"handleReset">>
            => /\ imageSrc' = Null
               /\ analysisData' = JsNull
               /\ ~isAnalyzing'
               /\ UploadShown'
               /\ ~EditorShown'
       /\ (discarded /\ ~EditorShown /\ EditorShown')
            => /\ EditorDefaults'
               /\ analysisData' = analyzeSemImage(response')]_vars

\* The editor of a session that follows a discard has just been mounted.
C18_Witness ==
    /\ discarded
    /\ lastOp = <<"analyzeSettles">>
    /\ EditorShown
    /\ calStart = Null
    /\ calEnd = Null
    /\ calibration.pixels = 0
    /\ mode = CALIBRATE
    /\ settings = InitSettings

\* C19: the exported surface has the crop's size, holds the crop's part of
\* the source image at its origin, and has nothing drawn on it but the
\* image and, at most, the bar and its label: no mask, border or markers.
C19_ExportIsCrop ==
    (lastOp = <<"handleDownload">> /\ imageObj # Null)
        => /\ download.made
           /\ download.width = crop.width
           /\ download.height = crop.height
           /\ download.source = <<crop.x, crop.y, crop.width, crop.height>>
           /\ download.dest = <<0, 0, crop.width, crop.height>>
           /\ download.ops \in {<<"drawImage">>, <<"drawImage", "fillRect", "fillText">>}
           /\ Len(download.ops) = 3 => download.bar.issued

\* An export of a crop moved in from the top and the left, so that the
\* preview has a mask, with both calibration points set.
C19_Witness ==
    /\ lastOp = <<"handleDownload">>
    /\ download.made
    /\ calStart # Null
    /\ calEnd # Null
    /\ download.source = <<100, 100, 900, 600>>
    /\ download.width = 900
    /\ download.height = 600

\* C20: while a selected file's suggestion is outstanding the upload stage
\* is shown with its analyzing indicator and the editor is not; the editor
\* is shown only with a stored suggestion and no analysis in progress.
C20_UploadStageUntilResolved ==
    /\ calls # {} => (UploadShown /\ AnalyzingShown /\ ~EditorShown)
    /\ EditorShown => (Truthy(analysisData) /\ ~isAnalyzing)

\* C21: a crop-inset field or the known-distance field left without a number
\* acts as if 0 had been entered: the edit is applied with 0, and 0 is what
\* is stored.
C21_NonNumericIsZero ==
    [][/\ (imageObj # Null /\ lastOp'[1] = "updateCropInset" /\ lastOp'[3].nan)
            => /\ lastOp'[2] = "top"
                    => crop' = [crop EXCEPT !.y = 0, !.height = crop.y + crop.height]
               /\ lastOp'[2] = "bottom"
                    => crop' = [crop EXCEPT !.height = Max(10, imageObj[2] - crop.y)]
               /\ lastOp'[2] = "left"
                    => crop' = [crop EXCEPT !.x = 0, !.width = crop.x + crop.width]
               /\ lastOp'[2] = "right"
                    => crop' = [crop EXCEPT !.width = Max(10, imageObj[1] - crop.x)]
       /\ (lastOp'[1] = "setKnownDistance" /\ lastOp'[2].nan)
            => calibration' = [calibration EXCEPT !.knownDistance = 0]]_vars

\* The top inset of the 1000 x 800 image has just been emptied, putting the
\* top edge back at 0 under a bottom edge at 700; the known distance was
\* emptied before and is 0, with the measured 50 px kept.
C21_Witness ==
    /\ lastOp = <<"updateCropInset", "top", NaNText>>
    /\ imageObj = <<1000, 800>>
    /\ crop = [x |-> 0, y |-> 0, width |-> 1000, height |-> 700]
    /\ calibration.knownDistance = 0
    /\ calibration.pixels = 50

\* C22: when the image has just loaded and the scale text is absent, has
\* fewer than two tokens or does not start with a number, the known
\* distance, the unit, the bar length and the bar unit are the defaults, and
\* the crop is the one the suggestion gives.
C22_UnusableTextLeavesDefaults ==
    (/\ lastOp = <<"imgOnload">>
     /\ \/ ~analysisData.hasText
        \/ Len(analysisData.detectedScaleText) < 2
        \/ analysisData.detectedScaleText[1].nan)
        => /\ calibration.knownDistance = 10
           /\ calibration.unit = "um"
           /\ settings.lengthValue = 5
           /\ settings.lengthUnit = "um"
           /\ crop.x = 0
           /\ crop.y = 0
           /\ crop.width = imageObj[1]
           /\ crop.height = IF analysisData.hasCropY /\ analysisData.suggestedCropY > 0
                            THEN analysisData.suggestedCropY
                            ELSE imageObj[2]

\* The 1000 x 800 image loaded with the scale text "scale 10" and the crop
\* line 700.
C22_Witness ==
    /\ lastOp = <<"imgOnload">>
    /\ imageObj = <<1000, 800>>
    /\ analysisData.hasText
    /\ Len(analysisData.detectedScaleText) = 2
    /\ analysisData.detectedScaleText[1].nan
    /\ calibration = InitCalibration
    /\ settings = InitSettings
    /\ crop.height = 700

\* How many of the four mask rectangles and the crop rectangle hold the
\* pixel (i, j).
TimesCovered(i, j) ==
    Cardinality({k \in DOMAIN drawMask : Covers(drawMask[k], i, j)})
        + (IF Covers(<<crop.x, crop.y, crop.width, crop.height>>, i, j) THEN 1 ELSE 0)

\* The crop rectangle lies inside the image.
CropInside ==
    /\ crop.x >= 0
    /\ crop.y >= 0
    /\ crop.width >= 0
    /\ crop.height >= 0
    /\ crop.x + crop.width <= imageObj[1]
    /\ crop.y + crop.height <= imageObj[2]

\* C23: for a crop inside the image, every pixel of the canvas lies in
\* exactly one of the four mask rectangles and the crop rectangle: the mask
\* rectangles are disjoint, miss the crop, and leave nothing outside it
\* unshaded.
C23_MaskTilesCanvas ==
    (imageObj # Null /\ CropInside)
        => \A i \in 0..(imageObj[1] - 1), j \in 0..(imageObj[2] - 1) : TimesCovered(i, j) = 1

\* A crop with a band of mask on each of its four sides.
C23_Witness ==
    /\ imageObj = <<30, 25>>
    /\ CropInside
    /\ crop.x > 0
    /\ crop.y > 0
    /\ crop.x + crop.width < 30
    /\ crop.y + crop.height < 25

\* The bar anchor the claim gives for the corner pos in the rectangle with
\* left edge rx, top edge ry and size rw x rh, for a bar bw wide.
AnchorOf(pos, rx, ry, rw, rh, bw) ==
    LET p == settings.overlayPadding
    IN  CASE pos = "bottom-right" -> <<rx + rw - bw - p, ry + rh - p>>
          [] pos = "bottom-left" -> <<rx + p, ry + rh - p>>
          [] pos = "top-right" -> <<rx + rw - bw - p, ry + p + settings.fontSize>>
          [] pos = "top-left" -> <<rx + p, ry + p + settings.fontSize>>

\* The bar b is drawn from the anchor a, its top edge lift pixels above it,
\* with the label centred on it and 8 px above its top edge.
DrawnFrom(b, a, lift) ==
    /\ b.x = a[1]
    /\ b.y = a[2] - lift
    /\ b.labelX2 = 2 * b.x + b.width
    /\ b.labelY = b.y - 8

\* C24: in the preview the bar is anchored in the crop rectangle and in the
\* export in the rectangle of the crop's size at the origin, at the corner's
\* anchor; the label is centred on the bar, its baseline 8 px above the top
\* edge of the bar as drawn.
C24_BarAnchors ==
    /\ (draw.issued /\ draw.finite)
          => DrawnFrom(draw,
                       AnchorOf(settings.position, crop.x, crop.y, crop.width, crop.height,
                                draw.width),
                       0)
    /\ JustExportedBar
          => DrawnFrom(download.bar,
                       AnchorOf(settings.position, 0, 0, crop.width, crop.height,
                                download.bar.width),
                       settings.barHeight)

\* A top-left bar previewed and exported on the crop (100, 100, 900, 600).
C24_Witness ==
    /\ JustExportedBar
    /\ draw.issued
    /\ settings.position = "top-left"
    /\ crop = [x |-> 100, y |-> 100, width |-> 900, height |-> 600]
    /\ draw.x = 140
    /\ draw.y = 164
    /\ download.bar.x = 40
    /\ download.bar.y = 56
    /\ download.bar.labelY = 48

\* C25: a canvas click changes neither the known distance nor the unit, and
\* an edit of the known distance or of the unit changes neither the
\* calibration points nor the pixel distance.
C25_PointsAndKnownIndependent ==
    [][/\ lastOp'[1] = "handleCanvasClick"
            => /\ calibration'.knownDistance = calibration.knownDistance
               /\ calibration'.unit = calibration.unit
       /\ lastOp'[1] \in {"setKnownDistance", "setUnit"}
            => /\ calStart' = calStart
               /\ calEnd' = calEnd
               /\ calibration'.pixels = calibration.pixels]_vars

\* The third click of a session has restarted the calibration; the known
\* distance 5 and the unit "nm" typed before it are still there.
C25_Witness ==
    /\ lastOp[1] = "handleCanvasClick"
    /\ clicks = 3
    /\ calStart # Null
    /\ calEnd = Null
    /\ calibration.knownDistance = 5
    /\ calibration.unit = "nm"

\* C26: the export is enabled, and the preview draws a bar, only while both
\* calibration points are set; not after a third click has restarted the
\* calibration and before a new end point is picked.
C26_ExportNeedsBothPoints ==
    (imageObj # Null /\ (ExportEnabled \/ draw.issued))
        => (calStart # Null /\ calEnd # Null)

\* The crop that making the last inset edit once more, with the same edge,
\* the same text and the same pixel/percent mode, would give.
EditedAgain ==
    LET max == IF lastOp[2] \in {"top", "bottom"} THEN imageObj[2] ELSE imageObj[1]
    IN  InsetCrop(crop, lastOp[2], parseInputValue(lastOp[3], max, usePercent),
                  imageObj[1], imageObj[2])

\* C27: an inset edit made twice in a row gives the crop it gave the first
\* time.
C27_InsetEditIdempotent ==
    (imageObj # Null /\ lastOp[1] = "updateCropInset") => EditedAgain = crop

\* 12.5 % has just been typed into the bottom inset of the 1000 x 800 image.
C27_Witness ==
    /\ lastOp = <<"updateCropInset", "bottom", Text(125)>>
    /\ usePercent
    /\ imageObj = <<1000, 800>>
    /\ crop.y = 0
    /\ crop.height = 700

\* C28: a top or bottom edit leaves x and width alone, a left or right edit
\* leaves y and height alone, and no inset edit changes the calibration
\* points, the calibration, the bar settings or the mode.
C28_InsetEditFrame ==
    [][lastOp'[1] = "updateCropInset"
          => /\ lastOp'[2] \in {"top", "bottom"}
                  => (crop'.x = crop.x /\ crop'.width = crop.width)
             /\ lastOp'[2] \in {"left", "right"}
                  => (crop'.y = crop.y /\ crop'.height = crop.height)
             /\ calStart' = calStart
             /\ calEnd' = calEnd
             /\ calibration' = calibration
             /\ settings' = settings
             /\ mode' = mode]_vars

\* The top edge has just been moved to 100 in a session with both points
\* picked, 50 px measured and the known distance emptied.
C28_Witness ==
    /\ lastOp = <<"updateCropInset", "top", Text(1000)>>
    /\ crop.y = 100
    /\ crop.width = 1000
    /\ calStart = <<0, 0>>
    /\ calEnd = <<30, 40>>
    /\ calibration.pixels = 50
    /\ calibration.knownDistance = 0

====
